---- MODULE Spec2Model ----
(***************************************************************************)
(* Model of the KLT feature tracker (trackers/base_klt.py: BaseKLT,       *)
(* OpenCVKLT) with its TrackManager, feature detector and optical-flow    *)
(* collaborators, and of the KITTI dataset composers                      *)
(* (pybot/utils/dataset/kitti.py).                                        *)
(*                                                                         *)
(* Points are pairs <<x, y>> in HALF pixels, so that the truncation to    *)
(* integer pixels done by create_mask and by the candidate filter is a    *)
(* real conversion.  A pixel is a pair <<col, row>> of integers.          *)
(***************************************************************************)
EXTENDS Integers, Sequences, FiniteSets, TLC

\* ------------------------------------------------------------------ bounds

\* Number of process calls explored.
MaxFrames == 3
\* Largest max_track_length given at construction (the default is 20).
MaxTrackLength == 3
\* Largest min_tracks configured at construction (the default is 1200).
MaxMinTracks == 3
\* Total number of track ids the explored runs may allocate.
MaxIds == 3
\* Image shape, in pixels: rows and columns.
ImH == 2
ImW == 22

\* Radius of the disk create_mask clears around every tracked point.
MaskRadius == 9

\* ------------------------------------------------------------------ points

\* np.nan pair: the optical-flow tracker's flag for a point it lost.
NaN == <<-1, -1>>

\* ids=None of TrackManager.add
None == <<-1>>

\* None where process expects the point array (ppts is None).
PtsNone == <<<<-1>>>>

IsFinite(p) == p # NaN

\* A point given in whole pixels.
Px(x, y) == <<2 * x, 2 * y>>

\* int(c) / astype(np.int32) on a non-negative coordinate in half pixels.
ToInt(c) == c \div 2

\* tuple(map(int, pt)) : the pixel a point falls in.
Pixel(p) == <<ToInt(p[1]), ToInt(p[2])>>

\* finite_and_within_bounds : the point lies on the image.
WithinBounds(p) ==
    /\ IsFinite(p)
    /\ Pixel(p)[1] >= 0 /\ Pixel(p)[1] < ImW
    /\ Pixel(p)[2] >= 0 /\ Pixel(p)[2] < ImH

\* Squared distance of two points (half pixels) and of two pixels.
Dist2(p, q) == (p[1] - q[1]) * (p[1] - q[1]) + (p[2] - q[2]) * (p[2] - q[2])

\* Two points lie within the exclusion radius of each other.
WithinRadius(p, q) == Dist2(p, q) <= (2 * MaskRadius) * (2 * MaskRadius)

Range(s) == {s[i] : i \in DOMAIN s}

\* The members of S among i..(top - 1), in ascending order.
RECURSIVE Sorted(_, _, _)
Sorted(S, i, top) ==
    IF i >= top THEN <<>>
    ELSE (IF i \in S THEN <<i>> ELSE <<>>) \o Sorted(S, i + 1, top)

\* s[valid] : the entries of s at the indices in keep, order kept.
RECURSIVE Select(_, _, _)
Select(s, keep, i) ==
    IF i > Len(s) THEN <<>>
    ELSE (IF i \in keep THEN <<s[i]>> ELSE <<>>) \o Select(s, keep, i + 1)

\* ------------------------------------------------------------ TrackManager

\* TrackManager(maxlen): no track, the id counter at 0.
TrackManagerNew(maxlen) ==
    [tracks |-> [i \in {} |-> <<>>], next |-> 0, maxlen |-> maxlen]

\* TrackManager.ids : the active ids, in the map's iteration order.
TmIds(tm) == Sorted(DOMAIN tm.tracks, 0, tm.next)

\* TrackManager.pts : the latest observation of every active track, in the
\* order of ids; an empty sequence when there is no track.
TmPts(tm) ==
    LET ids == TmIds(tm)
    IN  [i \in 1..Len(ids) |-> tm.tracks[ids[i]][Len(tm.tracks[ids[i]])]]

\* Appending to a history bounded by maxlen: the oldest entry leaves.
TmAppend(h, p, maxlen) ==
    LET a == Append(h, p)
    IN  IF Len(a) > maxlen THEN Tail(a) ELSE a

\* The (id, point) pairs from position i on, appended one after the other.
RECURSIVE TmUpdate(_, _, _, _, _)
TmUpdate(tracks, pts, ids, i, maxlen) ==
    IF i > Len(pts) THEN tracks
    ELSE IF ~IsFinite(pts[i]) THEN TmUpdate(tracks, pts, ids, i + 1, maxlen)
    ELSE LET id == ids[i]
             h  == IF id \in DOMAIN tracks THEN tracks[id] ELSE <<>>
             t  == [j \in DOMAIN tracks \cup {id} |->
                        IF j = id THEN TmAppend(h, pts[i], maxlen) ELSE tracks[j]]
         IN  TmUpdate(t, pts, ids, i + 1, maxlen)

\* Mutant: ids allocated after the largest ACTIVE id, so that the id of a
\* pruned track comes back.
TmAllocFreshReuse(tm, n) ==
    LET act  == DOMAIN tm.tracks
        base == IF act = {} THEN 0
                ELSE 1 + (CHOOSE m \in act : \A j \in act : j <= m)
    IN  [k \in 1..n |-> base + (k - 1)]

\* The id counter when it allocates one id per new point.
TmAllocFresh(tm, n) == [k \in 1..n |-> tm.next + (k - 1)]

\* TrackManager.add on well-formed input: the valid points are appended to
\* the tracks of their ids, or start fresh tracks, and with prune the tracks
\* that got no point are removed.
TmAddUpdate(tm, pts, ids, prune) ==
    LET valid == {i \in DOMAIN pts : IsFinite(pts[i])}
        vpts  == Select(pts, valid, 1)
        tids  == IF ids = None THEN TmAllocFresh(tm, Len(vpts))
                               ELSE Select(ids, valid, 1)
        upd   == TmUpdate(tm.tracks, vpts, tids, 1, tm.maxlen)
        kept  == IF prune THEN DOMAIN upd \cap Range(tids) ELSE DOMAIN upd
        top   == IF ids = None THEN tm.next + Len(vpts)
                 ELSE IF \E i \in Range(tids) : i >= tm.next
                      THEN 1 + (CHOOSE m \in Range(tids) :
                                    \A j \in Range(tids) : j <= m)
                      ELSE tm.next
    IN  [tm EXCEPT !.tracks = [j \in kept |-> upd[j]], !.next = top]

\* TrackManager.add(pts, ids, prune).
TmAdd(tm, pts, ids, prune) ==
    IF Len(pts) = 0 \/ (ids # None /\ Len(ids) # Len(pts))
    THEN tm                                   \* no update this frame
    ELSE TmAddUpdate(tm, pts, ids, prune)

\* --------------------------------------------- optical flow and detection

\* Displacements the optical flow may report for a frame, in half pixels.
Flows == {<<0, 0>>, <<3, 0>>}

\* OpticalFlowTracker.track(prev, next, ppts): every point moved by the
\* frame's flow d; the points at the positions in lost, and the points that
\* leave the image, come back flagged (NaN).  One entry per input point.
Track(prev, next, ppts, d, lost) ==
    [i \in DOMAIN ppts |->
        LET q == <<ppts[i][1] + d[1], ppts[i][2] + d[2]>>
        IN  IF i \in lost \/ ~WithinBounds(q) THEN NaN ELSE q]

\* All pixels of an image of shape (ImH, ImW), as <<col, row>>.
Pixels == (0..(ImW - 1)) \X (0..(ImH - 1))

\* create_mask(shape, pts): 255 everywhere, 0 on the filled disk of radius
\* MaskRadius around the pixel of every point of pts.  The loop is inside a
\* try whose except passes: pts = None draws no disk (TypeError), and a
\* flagged point ends the loop (int(nan) raises ValueError), so that only
\* the points before it are drawn.
create_mask(pts) ==
    IF pts = PtsNone
    THEN [px \in Pixels |-> 255]
    ELSE
    [px \in Pixels |->
        IF \E i \in DOMAIN pts :
              /\ \A j \in 1..i : IsFinite(pts[j])
              /\ LET c == Pixel(pts[i])
                 IN  (px[1] - c[1]) * (px[1] - c[1])
                         + (px[2] - c[2]) * (px[2] - c[2])
                             <= MaskRadius * MaskRadius
        THEN 0 ELSE 255]

\* Points the corner detector may report (whole pixels: subpixel=False).
DetectSet == {Px(0, 0), Px(10, 0), Px(20, 0)}

\* FeatureDetector.process(im, mask): found is an answer the detector may
\* give under the mask, which forbids a feature on a zero pixel.
Detectable(found, mask) ==
    \A i \in DOMAIN found : found[i] \in DetectSet /\ mask[Pixel(found[i])] > 0

\* Answers of the detector tried: no corner, one, two and three corners.
DetectAnswers ==
    { <<>>, <<Px(10, 0)>>, <<Px(0, 0), Px(20, 0)>>,
      <<Px(0, 0), Px(10, 0), Px(20, 0)>> }

\* detected_pts arguments tried: none, no candidate, whole-pixel and
\* sub-pixel candidates, and a candidate one column right of the image.
DetectedPts ==
    { [given |-> FALSE, pts |-> <<>>],
      [given |-> TRUE,  pts |-> <<>>],
      [given |-> TRUE,  pts |-> <<Px(0, 0), <<19, 1>>, Px(20, 0)>>],
      [given |-> TRUE,  pts |-> <<Px(10, 0), Px(ImW, 0)>>] }

\* mask[xy[:,1], xy[:,0]] raises IndexError when a candidate's pixel is not
\* on the image.
FilterRaises(detected_pts) ==
    \E i \in DOMAIN detected_pts : Pixel(detected_pts[i]) \notin Pixels

\* detected_pts[mask[xy[:,1], xy[:,0]] > 0], with xy = astype(int32).
FilterCandidates(mask, detected_pts) ==
    Select(detected_pts,
           {i \in DOMAIN detected_pts : mask[Pixel(detected_pts[i])] > 0}, 1)

\* ----------------------------------------------------------- orchestrator

\* gaussian_blur(to_gray(im)) of frame number n.
Preprocess(n) == [gray |-> n]

\* Mutant: the buffer holding three frames.
PushFrameLonger(ims, f) ==
    LET a == Append(ims, f) IN IF Len(a) > 3 THEN Tail(a) ELSE a

\* deque(maxlen=2).append
PushFrame(ims, f) ==
    LET a == Append(ims, f) IN IF Len(a) > 2 THEN Tail(a) ELSE a

\* process: self.ims_[-2] and self.ims_[-1], the frames given to the flow.
TrackSource(ims) == ims[Len(ims) - 1]
TrackTarget(ims) == ims[Len(ims)]

\* Mutant: the TrackManager built one observation too long.
BaseKLTTrackManagerLonger(max_track_length) ==
    TrackManagerNew(max_track_length + 1)

\* BaseKLT.__init__: the TrackManager holds max_track_length observations.
BaseKLTTrackManager(max_track_length) == TrackManagerNew(max_track_length)

\* Mutant: the propagation step run whenever two frames are buffered.
ShouldTrackAnyPoints(ppts, ims) == ppts # PtsNone /\ Len(ims) = 2

\* process, 'Track object': whether the propagation step runs.
ShouldTrack(ppts, ims) == ppts # PtsNone /\ Len(ppts) > 0 /\ Len(ims) = 2

\* process: self.tm_.add(pts, ids=pids, prune=True)
AddPropagated(tm, pts, pids) == TmAdd(tm, pts, pids, TRUE)

\* Mutant: the flag left out of the decision.
NeedFeaturesNoFlag(add_features, ppts, min_tracks) ==
    ppts = PtsNone \/ (ppts # PtsNone /\ Len(ppts) < min_tracks)

\* process, 'Check if more features required'.
NeedFeatures(add_features, ppts, min_tracks) ==
    add_features \/ ppts = PtsNone \/ (ppts # PtsNone /\ Len(ppts) < min_tracks)

\* process: the points the mask is built from.
MaskPoints(ppts, tm) == ppts

\* Mutant: the new points added with prune set.
AddFeaturesPrune(tm, new_pts) == TmAdd(tm, new_pts, None, TRUE)

\* process: self.tm_.add(new_pts, ids=None, prune=False)
AddFeatures(tm, new_pts) == TmAdd(tm, new_pts, None, FALSE)

\* process: the flag after the replenish step.
FlagAfterAdd(new_pts) == FALSE

\* Mutant: the points read before the call returned with the current ids.
ReturnValueStale(tm, pids, ppts) == [ids |-> TmIds(tm), pts |-> ppts]

\* Mutant: the ids read before the propagation step returned.
ReturnValueStaleIds(tm, pids, ppts) == [ids |-> pids, pts |-> TmPts(tm)]

\* process: return self.tm_.ids, self.tm_.pts
ReturnValue(tm, pids, ppts) == [ids |-> TmIds(tm), pts |-> TmPts(tm)]

\* ---------------------------------------------------------------- matches

Abs(k) == IF k < 0 THEN -k ELSE k

\* items[k] of Python, as a position of a TLA+ sequence.
PyIndex(h, k) == IF k < 0 THEN Len(h) + k + 1 ELSE k + 1

\* BaseKLT.matches: the test a track must pass to be reported.
Qualifies(h, index1, index2) == Len(h) > Abs(index1) /\ Len(h) > Abs(index2)

\* np.vstack(p) raises ValueError on an empty list.
VStackRaises(p) == Len(p) = 0

\* Mutant: the failure of np.vstack not caught.
MatchesExceptRaises ==
    [tids |-> <<>>, p1 |-> <<>>, p2 |-> <<>>, raised |-> TRUE]

\* matches, the except branch: three empty arrays.
MatchesExcept ==
    [tids |-> <<>>, p1 |-> <<>>, p2 |-> <<>>, raised |-> FALSE]

\* BaseKLT.matches(index1, index2): ids, first points and second points of
\* the qualifying tracks, in iteration order; three empty arrays when
\* np.vstack raises on the empty lists.
matches(tm, index1, index2) ==
    LET ids  == TmIds(tm)
        keep == {i \in DOMAIN ids : Qualifies(tm.tracks[ids[i]], index1, index2)}
        tids == Select(ids, keep, 1)
        p1   == [i \in DOMAIN tids |->
                    tm.tracks[tids[i]][PyIndex(tm.tracks[tids[i]], index1)]]
        p2   == [i \in DOMAIN tids |->
                    tm.tracks[tids[i]][PyIndex(tm.tracks[tids[i]], index2)]]
    IN  IF VStackRaises(p1) \/ VStackRaises(p2)
        THEN MatchesExcept
        ELSE [tids |-> tids, p1 |-> p1, p2 |-> p2, raised |-> FALSE]

NoMatch == [done |-> FALSE, index1 |-> -2, index2 |-> -1,
            ret |-> [tids |-> <<>>, p1 |-> <<>>, p2 |-> <<>>,
                     raised |-> FALSE]]

\* ------------------------------------------------------------------ KITTI

\* A decoded record that is None.
Absent == 0

\* A sequence name is the sequence of its characters: the decimal digits
\* 0..9 stand for themselves and Minus for the sign '-'.
Minus == 10

\* The value of a string of decimal digits.
RECURSIVE IntOfDigits(_)
IntOfDigits(digits) ==
    IF digits = <<>> THEN 0
    ELSE 10 * IntOfDigits(SubSeq(digits, 1, Len(digits) - 1))
            + digits[Len(digits)]

\* The digits of a sequence name: the name without one leading sign.
Digits(name) ==
    IF name # <<>> /\ name[1] = Minus THEN Tail(name) ELSE name

\* int(sequence) raises ValueError: no digit at all (the empty name, a lone
\* sign), or a sign anywhere but in front.
IntRaises(name) ==
    \/ Digits(name) = <<>>
    \/ \E i \in DOMAIN Digits(name) : Digits(name)[i] = Minus

\* int(sequence) of a sequence name: the value, or raised (ValueError).
IntOf(name) ==
    IF IntRaises(name) THEN [raised |-> TRUE, value |-> 0]
    ELSE IF name[1] = Minus
    THEN [raised |-> FALSE, value |-> 0 - IntOfDigits(Tail(name))]
    ELSE [raised |-> FALSE, value |-> IntOfDigits(name)]

\* Mutant: the lower end of the first range not tested, so that a negative
\* id gets the 0-2 entry.
kitti_stereo_calibNoLowerEnd(sequence) ==
    LET seq == IntOf(sequence).value
    IN  IF IntOf(sequence).raised THEN "ValueError"
        ELSE IF seq <= 2 THEN "kitti_00_02"
        ELSE IF seq = 3 THEN "kitti_03"
        ELSE IF seq >= 4 /\ seq <= 12 THEN "kitti_04_12"
        ELSE "raise"

\* kitti_stereo_calib(sequence): the calibration entry, "ValueError" when
\* int(sequence) raises, or "raise" (the RuntimeError of the last branch).
kitti_stereo_calib(sequence) ==
    LET seq == IntOf(sequence).value
    IN  IF IntOf(sequence).raised THEN "ValueError"
        ELSE IF seq >= 0 /\ seq <= 2 THEN "kitti_00_02"
        ELSE IF seq = 3 THEN "kitti_03"
        ELSE IF seq >= 4 /\ seq <= 12 THEN "kitti_04_12"
        ELSE "raise"

\* A per-modality reader opened on a modality of the dataset: the reader,
\* or the exception it raises when the files are missing.
OpenReader(present) == IF present THEN "reader" ELSE "raise"

\* try: reader  except: repeat(None)
TryReader(present) ==
    IF OpenReader(present) = "raise" THEN "repeat" ELSE "reader"

NoKitti ==
    [kind |-> "none", sequence |-> <<0, 0>>,
     disk |-> [poses |-> TRUE, velodyne |-> TRUE, oxts |-> TRUE, n |-> 0],
     phase |-> "none", calib |-> "unset", poses |-> "unset",
     velodyne |-> "unset", oxts |-> "unset", oxt_formats |-> FALSE,
     method |-> "none", out |-> <<>>]

\* KITTIDatasetReader.__init__ on composer state k.
KITTIDatasetReaderInit(k) ==
    LET calib == kitti_stereo_calib(k.sequence)
    IN  IF calib \in {"ValueError", "raise"}
        THEN [k EXCEPT !.phase = "failed"]
        ELSE [k EXCEPT !.phase = "ready", !.calib = calib,
                       !.poses = TryReader(k.disk.poses),
                       !.velodyne = TryReader(k.disk.velodyne)]

\* KITTIRawDatasetReader.__init__ on composer state k.
KITTIRawDatasetReaderInit(k) ==
    LET base == KITTIDatasetReaderInit(k)
    IN  IF base.phase = "failed" THEN base
        ELSE IF OpenReader(k.disk.velodyne) = "raise"
        THEN [base EXCEPT !.phase = "failed"]
        ELSE [base EXCEPT !.poses = TryReader(k.disk.poses),
                          !.velodyne = "reader",
                          !.oxt_formats = k.disk.oxts,
                          !.oxts = TryReader(k.disk.oxts)]

\* x.iteritems() : raises AttributeError on an itertools.repeat object.
IterItemsRaises(reader) == reader = "repeat"

\* The streams iterframes / iter_gt_frames zip with the stereo stream.
ZippedStreams(k) ==
    IF k.kind = "KITTIRawDatasetReader" /\ k.method = "iterframes"
    THEN {k.poses, k.oxts} ELSE {k.poses}

\* The record yielded for stereo pair i.
FrameRecord(k, i) ==
    [left |-> i, right |-> i, velodyne |-> Absent,
     pose |-> IF k.poses = "reader" THEN i ELSE Absent,
     oxt  |-> IF k.kind = "KITTIRawDatasetReader" /\ k.method = "iterframes"
              THEN i ELSE Absent]

\* ------------------------------------------------------------------ state

VARIABLES
    tm_,            \* self.tm_ : the TrackManager
    ims_,           \* self.ims_ : deque(maxlen=2) of preprocessed frames
    add_features_,  \* self.add_features_
    min_tracks_,    \* self.min_tracks_
    max_track_length, \* the max_track_length given at construction
    frame,          \* number of process calls made so far
    last_op,        \* history: the last operation made on the tracker
    everIds,        \* history: every id a track has held so far
    call,           \* history: what the last call saw and did
    match,          \* the last matches(index1, index2) call and its result
    kitti           \* a KITTI dataset composer and the dataset it reads

vars == <<tm_, ims_, add_features_, min_tracks_, max_track_length, frame,
          last_op, everIds, call, match, kitti>>

NoCall ==
    [op |-> "init", pre |-> [i \in {} |-> <<>>], pre_flag |-> TRUE,
     pre_op |-> "construction",
     pids |-> <<>>, ppts |-> <<>>, tracked |-> FALSE, flow |-> <<>>,
     mid |-> [i \in {} |-> <<>>], need |-> FALSE, given |-> FALSE,
     mask_pts |-> <<>>, new_pts |-> <<>>, raised |-> FALSE,
     src |-> Preprocess(0), dst |-> Preprocess(0),
     ret |-> [ids |-> <<>>, pts |-> <<>>]]

\* The max_track_length values tried.
TrackLengths == {MaxTrackLength - 1, MaxTrackLength}

\* OpenCVKLT(max_track_length=n, min_tracks=m), for n in TrackLengths and m
\* zero or the largest value tried.
Init ==
    /\ max_track_length \in TrackLengths
    /\ tm_ = BaseKLTTrackManager(max_track_length)
    /\ min_tracks_ \in {0, MaxMinTracks}
    /\ ims_ = <<>>
    /\ add_features_ = TRUE
    /\ frame = 0
    /\ last_op = "construction"
    /\ everIds = {}
    /\ call = NoCall
    /\ match = NoMatch
    /\ kitti = NoKitti

\* OpenCVKLT.reset(), made while a process call is still to come.
Reset ==
    /\ frame < MaxFrames
    /\ add_features_' = TRUE
    /\ last_op' = "reset"
    /\ UNCHANGED <<tm_, ims_, min_tracks_, max_track_length, frame, everIds,
                   call, match, kitti>>

\* Sets of positions the optical flow may lose among n points: none, any
\* single one, or all.
LostSets(n) == {{}} \cup {{i} : i \in 1..n} \cup {1..n}

\* The answers the optical flow may give for ppts: <<d, lost>>.
FlowAnswers(tracked, ppts) ==
    IF tracked THEN Flows \X LostSets(Len(ppts)) ELSE {<<<<0, 0>>, {}>>}

\* The detected_pts arguments that matter to a call.
CandidateInputs(need) ==
    IF need THEN DetectedPts ELSE {[given |-> FALSE, pts |-> <<>>]}

\* The answers the detector may give to a call.
DetectorAnswers(need, det, mask) ==
    IF need /\ ~det.given THEN {f \in DetectAnswers : Detectable(f, mask)}
                          ELSE {<<>>}

\* OpenCVKLT.process(im, detected_pts): im is frame number frame + 1; fl is
\* the optical flow's answer, found the detector's.
Process ==
    /\ frame < MaxFrames
    /\ LET ims1    == PushFrame(ims_, Preprocess(frame + 1))
           pids    == TmIds(tm_)
           ppts    == TmPts(tm_)
           tracked == ShouldTrack(ppts, ims1)
           need    == NeedFeatures(add_features_, ppts, min_tracks_)
       IN  \E fl \in FlowAnswers(tracked, ppts), det \in CandidateInputs(need) :
           LET src    == IF tracked THEN TrackSource(ims1) ELSE Preprocess(0)
               dst    == IF tracked THEN TrackTarget(ims1) ELSE Preprocess(0)
               pts    == IF tracked
                         THEN Track(src, dst, ppts, fl[1], fl[2])
                         ELSE <<>>
               tm1    == IF tracked THEN AddPropagated(tm_, pts, pids) ELSE tm_
               mpts   == MaskPoints(ppts, tm1)
               mask   == create_mask(mpts)
               raises == need /\ det.given /\ FilterRaises(det.pts)
           IN  \E found \in DetectorAnswers(need /\ ~raises, det, mask) :
               LET new_pts == IF ~need \/ raises THEN <<>>
                              ELSE IF det.given
                                   THEN FilterCandidates(mask, det.pts)
                                   ELSE found
                   tm2     == IF need /\ ~raises THEN AddFeatures(tm1, new_pts)
                                                 ELSE tm1
                   flag    == IF need /\ ~raises THEN FlagAfterAdd(new_pts)
                                                 ELSE need
                   ret     == IF raises THEN [ids |-> <<>>, pts |-> <<>>]
                              ELSE ReturnValue(tm2, pids, ppts)
               IN  /\ tm2.next <= MaxIds
                   /\ tm_' = tm2
                   /\ ims_' = ims1
                   /\ add_features_' = flag
                   /\ frame' = frame + 1
                   /\ last_op' = "process"
                   /\ everIds' = everIds \cup DOMAIN tm2.tracks
                   /\ call' = [op |-> "process", pre |-> tm_.tracks,
                               pre_flag |-> add_features_,
                               pre_op |-> last_op,
                               pids |-> pids, ppts |-> ppts,
                               tracked |-> tracked, flow |-> pts,
                               mid |-> tm1.tracks, need |-> need,
                               given |-> det.given,
                               mask_pts |-> IF need THEN mpts ELSE <<>>,
                               new_pts |-> new_pts, raised |-> raises,
                               src |-> src, dst |-> dst,
                               ret |-> ret]
    /\ UNCHANGED <<min_tracks_, max_track_length, match, kitti>>

Next == Process \/ Reset

Spec == Init /\ [][Next]_vars

\* ------------------------------------------------- matches, specification

\* Offsets tried for index1 and index2.
MaxOffset == 3
Offsets == (0 - MaxOffset)..(MaxOffset - 1)

\* OpenCVKLT(max_track_length=MaxTrackLength, min_tracks=0): the matches
\* call of a run follows any process and reset calls made on it.
InitMatches ==
    /\ Init
    /\ max_track_length = MaxTrackLength
    /\ min_tracks_ = 0

\* process, made before the matches call of the run.
ProcessThenMatches == ~match.done /\ Process

\* reset, made before the matches call of the run.
ResetThenMatches == ~match.done /\ Reset

\* BaseKLT.matches(index1, index2)
Matches ==
    /\ ~match.done
    /\ \E index1 \in Offsets, index2 \in Offsets :
          match' = [done |-> TRUE, index1 |-> index1, index2 |-> index2,
                    ret |-> matches(tm_, index1, index2)]
    /\ UNCHANGED <<tm_, ims_, add_features_, min_tracks_, max_track_length,
                   frame, last_op, everIds, call, kitti>>

NextMatches == ProcessThenMatches \/ ResetThenMatches \/ Matches

SpecMatches == InitMatches /\ [][NextMatches]_vars

\* --------------------------------------------------- KITTI, specification

\* Stereo pairs in the dataset.
MaxStereo == 2

\* Largest sequence number tried.
MaxSequence == 14

\* Sequence names tried: "00", "01", ... up to MaxSequence, "-1", and names
\* that are no number: the constructors' default '', "-" and "1-".
SequenceNames ==
    {<<n \div 10, n % 10>> : n \in 0..MaxSequence}
        \cup {<<Minus, 1>>, <<>>, <<Minus>>, <<1, Minus>>}

Disks ==
    [poses : BOOLEAN, velodyne : BOOLEAN, oxts : BOOLEAN, n : 0..MaxStereo]

InitKitti ==
    /\ tm_ = BaseKLTTrackManager(MaxTrackLength)
    /\ min_tracks_ = 0
    /\ max_track_length = MaxTrackLength
    /\ ims_ = <<>>
    /\ add_features_ = TRUE
    /\ frame = 0
    /\ last_op = "construction"
    /\ everIds = {}
    /\ call = NoCall
    /\ match = NoMatch
    /\ \E q \in SequenceNames, dk \in Disks :
          kitti = [NoKitti EXCEPT !.sequence = q, !.disk = dk]

KUnchanged ==
    UNCHANGED <<tm_, ims_, add_features_, min_tracks_, max_track_length,
                frame, last_op, everIds, call, match>>

\* KITTIDatasetReader(directory, sequence)
ConstructKITTI ==
    /\ kitti.phase = "none"
    /\ kitti' = KITTIDatasetReaderInit([kitti EXCEPT !.kind = "KITTIDatasetReader"])
    /\ KUnchanged

\* KITTIRawDatasetReader(directory, sequence)
ConstructKITTIRaw ==
    /\ kitti.phase = "none"
    /\ kitti' = KITTIRawDatasetReaderInit(
                    [kitti EXCEPT !.kind = "KITTIRawDatasetReader"])
    /\ KUnchanged

\* iterframes() / iter_gt_frames(): the generator is created, nothing runs.
Iterate ==
    /\ kitti.phase = "ready"
    /\ \E m \in {"iterframes", "iter_gt_frames"} :
          kitti' = [kitti EXCEPT !.phase = "iterating", !.method = m]
    /\ KUnchanged

\* next() on the generator: the zipped streams are opened on the first
\* call; one record is yielded per stereo pair.
NextFrame ==
    /\ kitti.phase = "iterating"
    /\ kitti' =
         IF \E r \in ZippedStreams(kitti) : IterItemsRaises(r)
         THEN [kitti EXCEPT !.phase = "error"]
         ELSE IF Len(kitti.out) < kitti.disk.n
         THEN [kitti EXCEPT !.out = Append(@, FrameRecord(kitti, Len(@) + 1))]
         ELSE [kitti EXCEPT !.phase = "done"]
    /\ KUnchanged

NextKitti == ConstructKITTI \/ ConstructKITTIRaw \/ Iterate \/ NextFrame

SpecKitti == InitKitti /\ [][NextKitti]_vars

\* ----------------------------------------------------------------- claims

\* Ids of the tracks the last call created.
NewIds == DOMAIN tm_.tracks \ DOMAIN call.pre

\* Ids whose point the optical flow propagated in the last call.
Propagated == {call.pids[i] : i \in {j \in DOMAIN call.flow : IsFinite(call.flow[j])}}

\* The last call was a process call that returned.
Returned == call.op = "process" /\ ~call.raised

\* C1: every track a step creates gets an id that no track, active or
\* pruned, has held before that step.
C1_IdsNeverReused ==
    [][\A i \in DOMAIN tm_'.tracks \ DOMAIN tm_.tracks : i \notin everIds]_vars

\* C1 witness: a call created a track while an earlier id was already pruned.
C1_Witness ==
    /\ Returned
    /\ NewIds # {}
    /\ \E i \in everIds : i \notin DOMAIN tm_.tracks /\ i \notin DOMAIN call.pre

\* C2: after the add(pts, ids=pids, prune=True) of the propagation step the
\* active ids are exactly the ids handed to it (the call allocates none): no
\* track named in ids is removed, every other track is; after the whole
\* call the active ids are those and the ids the replenish step allocated.
C2_PruneKeepsExactlyIds ==
    (call.op = "process" /\ call.tracked) =>
        /\ Range(call.pids) \subseteq DOMAIN call.pre
        /\ DOMAIN call.mid = Range(call.pids)
        /\ DOMAIN tm_.tracks = Range(call.pids) \cup NewIds

\* C3: every history holds 1..max_track_length observations, and a
\* propagated point is appended last, the oldest observation leaving when the
\* history was full.
C3_SlidingWindow ==
    /\ \A i \in DOMAIN tm_.tracks :
          Len(tm_.tracks[i]) >= 1 /\ Len(tm_.tracks[i]) <= max_track_length
    /\ (call.op = "process" /\ call.tracked) =>
          \A k \in DOMAIN call.pids :
              LET id  == call.pids[k]
                  old == call.pre[id]
              IN  IsFinite(call.flow[k]) =>
                    call.mid[id] =
                        IF Len(old) = max_track_length
                        THEN Append(Tail(old), call.flow[k])
                        ELSE Append(old, call.flow[k])

\* C3 witness: a point was appended to a full history.
C3_Witness ==
    /\ Returned /\ call.tracked
    /\ \E k \in DOMAIN call.pids :
          /\ IsFinite(call.flow[k])
          /\ Len(call.pre[call.pids[k]]) = max_track_length

\* ids and pts are parallel: one entry per active track, pts[i] the latest
\* observation of track ids[i].
Parallel(ids, pts) ==
    /\ Len(ids) = Len(pts)
    /\ Len(ids) = Cardinality(DOMAIN tm_.tracks)
    /\ Range(ids) = DOMAIN tm_.tracks
    /\ \A i \in DOMAIN ids :
          pts[i] = tm_.tracks[ids[i]][Len(tm_.tracks[ids[i]])]

\* C4: ids and pts of the TrackManager, and the pair a process call
\* returned, have equal length and correspond positionally; with no active
\* track pts is the empty sequence.
C4_IdsPtsParallel ==
    /\ Parallel(TmIds(tm_), TmPts(tm_))
    /\ Returned => Parallel(call.ret.ids, call.ret.pts)
    /\ (Returned /\ DOMAIN tm_.tracks = {}) => call.ret.pts = <<>>

\* C4 witness: a call that both propagated (moving a point) and added
\* tracks returned.
C4_Witness ==
    /\ Returned /\ call.tracked
    /\ NewIds # {}
    /\ \E k \in DOMAIN call.pids :
          IsFinite(call.flow[k]) /\ call.flow[k] # call.ppts[k]

\* C4 witness of the empty case: a call returned with no active track.
C4_WitnessEmpty == Returned /\ DOMAIN tm_.tracks = {} /\ frame > 1

\* Number of active tracks.
Count == Cardinality(DOMAIN tm_.tracks)

\* C5: while the active track count is below min_tracks and the last call
\* added no new point, the add-features flag is set.
C5_FlagStaysUntilAdded ==
    (call.op = "process" /\ Count < min_tracks_ /\ NewIds = {}) => add_features_

\* Every track of t has id in ids and exactly n observations.
TracksAre(t, ids, n) == DOMAIN t = ids /\ \A i \in ids : Len(t[i]) = n

\* C6, first call: 3 detected points registered on an empty track set.
C6_Frame1 ==
    (min_tracks_ = 3 /\ frame = 1 /\ Returned /\ Len(call.new_pts) = 3) =>
        TracksAre(tm_.tracks, {0, 1, 2}, 1)

\* C6, second call: the flow propagates all 3.
C6_Frame2 ==
    (/\ min_tracks_ = 3 /\ frame = 2 /\ Returned /\ call.pre_flag = FALSE
     /\ TracksAre(call.pre, {0, 1, 2}, 1) /\ Propagated = {0, 1, 2}) =>
        TracksAre(tm_.tracks, {0, 1, 2}, 2)

\* The third call of the scenario has been made: the flow propagated only
\* ids 0 and 2 of the three tracks of length 2, the histories holding at
\* least 3 observations.
C6_Frame3Done ==
    /\ min_tracks_ = 3 /\ max_track_length >= 3
    /\ frame = 3 /\ call.op = "process"
    /\ call.pre_flag = FALSE
    /\ TracksAre(call.pre, {0, 1, 2}, 2) /\ Propagated = {0, 2}

\* C6, third call: track 1 is removed and tracks 0 and 2 have length 3.
C6_Frame3Tracks ==
    C6_Frame3Done =>
        /\ 1 \notin DOMAIN call.mid
        /\ TracksAre(call.mid, {0, 2}, 3)

\* C6, third call: the replenish flag becomes set in that call.
C6_Frame3Flag == C6_Frame3Done => call.need

\* C6: the end-to-end scenario with min_tracks = 3.
C6_Scenario == C6_Frame1 /\ C6_Frame2 /\ C6_Frame3Tracks /\ C6_Frame3Flag

\* C7: no point registered as a new track by a call lies within the
\* exclusion radius of the latest observation of a track that was active
\* when the new points were added.
C7_NewPointsOutsideRadius ==
    Returned =>
        \A n \in NewIds, j \in DOMAIN call.mid :
            ~WithinRadius(tm_.tracks[n][1], call.mid[j][Len(call.mid[j])])

\* C8: no process call raises; a call whose flow propagates no point leaves
\* the track set empty, and a replenish step that finds no point leaves it
\* unchanged.
C8_ProcessNeverRaises ==
    call.op = "process" =>
        /\ ~call.raised
        /\ (call.tracked /\ Propagated = {}) => DOMAIN call.mid = {}
        /\ (call.need /\ call.new_pts = <<>>) => tm_.tracks = call.mid

\* A track's history has an observation at Python offset k.
HasOffset(h, k) == IF k < 0 THEN Len(h) >= 0 - k ELSE Len(h) > k

\* C9: matches reports exactly the active tracks whose history holds an
\* observation at both offsets, with the observations at those offsets; with
\* the default offsets these are the tracks with at least two observations.
C9_MatchesAllLongEnough ==
    match.done =>
        /\ Range(match.ret.tids) =
              {i \in DOMAIN tm_.tracks :
                  /\ HasOffset(tm_.tracks[i], match.index1)
                  /\ HasOffset(tm_.tracks[i], match.index2)}
        /\ Len(match.ret.p1) = Len(match.ret.tids)
        /\ Len(match.ret.p2) = Len(match.ret.tids)
        /\ \A j \in DOMAIN match.ret.tids :
              LET h == tm_.tracks[match.ret.tids[j]]
              IN  /\ match.ret.p1[j] = h[PyIndex(h, match.index1)]
                  /\ match.ret.p2[j] = h[PyIndex(h, match.index2)]
        /\ (match.index1 = -2 /\ match.index2 = -1) =>
              Range(match.ret.tids) =
                  {i \in DOMAIN tm_.tracks : Len(tm_.tracks[i]) >= 2}

\* The composer lacks an optional modality of its kind.
MissingModality ==
    \/ ~kitti.disk.poses
    \/ ~kitti.disk.velodyne
    \/ (kitti.kind = "KITTIRawDatasetReader" /\ ~kitti.disk.oxts)

\* The composer was built for a sequence that has a calibration entry, on a
\* dataset that lacks an optional modality.
C10_Case ==
    /\ kitti.phase # "none"
    /\ kitti_stereo_calib(kitti.sequence) \notin {"ValueError", "raise"}
    /\ MissingModality

\* C10, construction: with a modality missing, construction succeeds.
C10_ConstructionSucceeds == C10_Case => kitti.phase # "failed"

\* C10: with an optional modality missing, iterating the frames of the
\* composer that was built does not fail and yields one record per stereo
\* pair, the missing modality absent.
C10_MissingModalityDegrades ==
    C10_Case =>
        /\ kitti.phase # "error"
        /\ kitti.phase = "done" =>
              /\ Len(kitti.out) = kitti.disk.n
              /\ \A i \in DOMAIN kitti.out :
                    /\ ~kitti.disk.poses => kitti.out[i].pose = Absent
                    /\ ~kitti.disk.velodyne => kitti.out[i].velodyne = Absent

\* The sequence name of the composer is not a number.
NotNumeric == IntOf(kitti.sequence).raised

\* The sequence id of the composer, by its numeric value.
SeqId == IntOf(kitti.sequence).value

\* The sequence id has no calibration entry.
OutOfRange == NotNumeric \/ SeqId < 0 \/ SeqId >= 13

\* C11: the calibration entry is chosen by the numeric value of the sequence
\* id (0..2, 3, 4..12), and a KITTIDatasetReader built with any other id
\* (negative, or 13 and above) fails, whatever modalities are missing; the
\* raw composer fails on such an id as well.  A name that is no number has
\* no calibration entry either: int(sequence) raises and construction fails.
C11_CalibByRange ==
    kitti.phase # "none" =>
        /\ (~NotNumeric /\ SeqId >= 0 /\ SeqId <= 2) =>
              kitti.calib = "kitti_00_02"
        /\ (~NotNumeric /\ SeqId = 3) => kitti.calib = "kitti_03"
        /\ (~NotNumeric /\ SeqId >= 4 /\ SeqId <= 12) =>
              kitti.calib = "kitti_04_12"
        /\ OutOfRange => kitti.phase = "failed" /\ kitti.calib = "unset"
        /\ (kitti.kind = "KITTIDatasetReader" /\ ~OutOfRange) =>
              kitti.phase # "failed"

\* C11 witness: a KITTIDatasetReader built with sequence "13" on a dataset
\* without poses and point clouds failed.
C11_Witness ==
    /\ kitti.kind = "KITTIDatasetReader" /\ kitti.phase = "failed"
    /\ ~NotNumeric /\ SeqId = 13
    /\ ~kitti.disk.poses /\ ~kitti.disk.velodyne

\* C11 witness of the negative case: sequence "-1" failed.
C11_WitnessNegative ==
    /\ kitti.kind = "KITTIDatasetReader" /\ kitti.phase = "failed"
    /\ ~NotNumeric /\ SeqId = 0 - 1

\* C11 witness of a name that is not a number: the default sequence '' of
\* the constructor failed.
C11_WitnessDefaultName ==
    /\ kitti.kind = "KITTIDatasetReader" /\ kitti.phase = "failed"
    /\ kitti.sequence = <<>> /\ NotNumeric
    /\ kitti.calib = "unset"

\* C11 witness of the upper end of the last range: sequence "12" was built.
C11_WitnessTwelve ==
    /\ kitti.phase = "ready" /\ ~NotNumeric /\ SeqId = 12
    /\ kitti.calib = "kitti_04_12"

\* No active track holds an observation at both offsets of the last
\* matches call.
NoneQualifies ==
    \A i \in DOMAIN tm_.tracks :
        ~(/\ HasOffset(tm_.tracks[i], match.index1)
          /\ HasOffset(tm_.tracks[i], match.index2))

\* C13: when no active track qualifies, matches returns three empty arrays
\* and does not raise.
C13_MatchesEmpty ==
    (match.done /\ NoneQualifies) =>
        /\ ~match.ret.raised
        /\ match.ret.tids = <<>>
        /\ match.ret.p1 = <<>>
        /\ match.ret.p2 = <<>>

\* C13 witness: matches was called while every active track was too short.
C13_Witness ==
    /\ match.done /\ NoneQualifies
    /\ DOMAIN tm_.tracks # {}

\* C13 witness of the case of no track at all.
C13_WitnessNoTracks == match.done /\ DOMAIN tm_.tracks = {}

\* Ids that were active once and are not now.
Gone == everIds \ DOMAIN tm_.tracks

\* C14, the call itself: a track whose point was not propagated is absent
\* after the propagation step, after the call and from the returned ids; a
\* track whose point was propagated keeps its id and has its old history
\* (less the oldest observation when it was full) with the propagated point
\* appended.
C14_ThisCall ==
    (call.op = "process" /\ call.tracked) =>
        \A k \in DOMAIN call.pids :
            LET id  == call.pids[k]
                old == call.pre[id]
            IN  IF IsFinite(call.flow[k])
                THEN /\ id \in DOMAIN call.mid /\ id \in DOMAIN tm_.tracks
                     /\ Returned => id \in Range(call.ret.ids)
                     /\ tm_.tracks[id] = call.mid[id]
                     /\ LET new == call.mid[id]
                        IN  /\ new[Len(new)] = call.flow[k]
                            /\ SubSeq(new, 1, Len(new) - 1) \in {old, Tail(old)}
                ELSE /\ id \notin DOMAIN call.mid /\ id \notin DOMAIN tm_.tracks
                     /\ id \notin Range(call.ret.ids)

\* C14, later calls: an id that is gone is not made active again by any
\* step and is not among the ids a later call returns.
C14_LaterCalls ==
    \A i \in Gone : i \notin DOMAIN tm_'.tracks /\ i \notin Range(call'.ret.ids)

\* C14: the id of a track that failed to propagate is absent from the ids
\* returned by that call and by every later call, and a propagated track
\* keeps its id and gains one observation.
C14_FailedIdsAbsent == [](C14_ThisCall) /\ [][C14_LaterCalls]_vars

\* C14 witness: a call that lost one track and propagated another returned,
\* an earlier call having lost a track already.
C14_Witness ==
    /\ Returned /\ call.tracked
    /\ \E k \in DOMAIN call.pids : ~IsFinite(call.flow[k])
    /\ \E k \in DOMAIN call.pids : IsFinite(call.flow[k])
    /\ \E i \in Gone : i \notin DOMAIN call.pre

\* Number of active tracks after the propagation step of the last call.
CountAfterPropagation == Cardinality(DOMAIN call.mid)

\* C15: a process call whose track count after its propagation and pruning
\* step is below min_tracks, or that is the first frame (no previous
\* points), performs the replenish step itself.
C15_ReplenishOnCurrentCount ==
    call.op = "process" =>
        ((CountAfterPropagation < min_tracks_ \/ frame = 1) => call.need)

\* C16: a process call that begins with no active track performs the
\* replenish step, whatever min_tracks is.
C16_BootstrapReplenishes ==
    (call.op = "process" /\ DOMAIN call.pre = {}) => call.need

\* The frames the buffer holds after n process calls.
RecentFrames(n) ==
    IF n = 0 THEN <<>>
    ELSE IF n = 1 THEN <<Preprocess(1)>>
    ELSE <<Preprocess(n - 1), Preprocess(n)>>

\* C17: after n process calls the buffer holds the min(n, 2) most recent
\* preprocessed frames in arrival order, and a propagation step goes from
\* the previous call's frame to the current call's frame.
C17_TwoFrameBuffer ==
    /\ ims_ = RecentFrames(frame)
    /\ Len(ims_) = IF frame < 2 THEN frame ELSE 2
    /\ (call.op = "process" /\ call.tracked) =>
          /\ call.src = Preprocess(frame - 1)
          /\ call.dst = Preprocess(frame)

\* C17 witness: a third frame was pushed and the call propagated tracks.
C17_Witness ==
    /\ frame = 3 /\ call.op = "process" /\ call.tracked
    /\ Preprocess(1) \notin Range(ims_)

\* C18: the propagation step runs only in a call made with two frames
\* buffered and at least one track active at its start; in any other call no
\* flow is computed and the tracks after the propagation step are the
\* tracks the call started with.
C18_PropagationOnlyWithTracks ==
    call.op = "process" =>
        /\ call.tracked => (frame >= 2 /\ DOMAIN call.pre # {})
        /\ (frame < 2 \/ DOMAIN call.pre = {}) =>
              /\ ~call.tracked
              /\ call.flow = <<>>
              /\ call.mid = call.pre

\* C18 witness: a call later than the first began with an empty track set.
C18_Witness ==
    /\ call.op = "process" /\ frame >= 2
    /\ DOMAIN call.pre = {} /\ ~call.tracked

\* C18 witness of the first frame.
C18_WitnessFirstFrame == call.op = "process" /\ frame = 1 /\ ~call.tracked

\* Ids of the tracks the replenish step of the last call created.
Replenished == DOMAIN tm_.tracks \ DOMAIN call.mid

\* C19: the replenish step leaves every track that was active just before
\* it as it was, and adds one track per accepted new point, each with an id
\* that no track held before and the point as its single observation.
C19_ReplenishKeepsTracks ==
    (Returned /\ call.need) =>
        /\ \A i \in DOMAIN call.mid :
              i \in DOMAIN tm_.tracks /\ tm_.tracks[i] = call.mid[i]
        /\ LET nids == Sorted(Replenished, 0, tm_.next)
           IN  /\ Len(nids) = Len(call.new_pts)
               /\ \A k \in DOMAIN nids :
                     /\ tm_.tracks[nids[k]] = <<call.new_pts[k]>>
                     /\ nids[k] \notin DOMAIN call.pre
                     /\ \A j \in DOMAIN call.pre \cup DOMAIN call.mid :
                           nids[k] > j

\* C19 witness: a replenish step added points next to tracks that had just
\* been propagated.
C19_Witness ==
    /\ Returned /\ call.need /\ call.tracked
    /\ DOMAIN call.mid # {}
    /\ Len(call.new_pts) >= 2

\* C20: after a process call that returned the flag is false, whatever the
\* replenish step added, and the flag is true between calls only directly
\* after construction or after reset().
C20_FlagFalseAfterProcess ==
    /\ (last_op = "process" /\ ~call.raised) => ~add_features_
    /\ add_features_ => last_op \in {"construction", "reset"}

\* C21, the reset step: a step that is no process call sets the flag and
\* leaves the TrackManager (tracks and id counter), the frame buffer and the
\* configuration as they were.
C21_ResetStep ==
    frame' = frame =>
        /\ add_features_'
        /\ tm_' = tm_
        /\ ims_' = ims_
        /\ min_tracks_' = min_tracks_
        /\ max_track_length' = max_track_length

\* C21, the call after reset(): it performs the replenish step whatever the
\* track count is, after having propagated the tracks it started with when
\* there were any and two frames were buffered.
C21_CallAfterReset ==
    (call.op = "process" /\ call.pre_op = "reset") =>
        /\ call.pre_flag
        /\ call.need
        /\ (frame >= 2 /\ DOMAIN call.pre # {}) =>
              /\ call.tracked
              /\ DOMAIN call.mid = Propagated
        /\ Returned =>
              \A i \in DOMAIN tm_.tracks \ DOMAIN call.mid :
                  tm_.tracks[i] \in Range(
                      [k \in DOMAIN call.new_pts |-> <<call.new_pts[k]>>])

\* C21: reset() changes only the add-features flag, and the next process
\* call replenishes even with min_tracks tracks or more, propagating the
\* existing tracks first.
C21_ResetOnlySetsFlag == [](C21_CallAfterReset) /\ [][C21_ResetStep]_vars

\* C21 witness: after reset() a call that began with at least min_tracks
\* tracks propagated them and then added new tracks.
C21_Witness ==
    /\ Returned /\ call.pre_op = "reset"
    /\ DOMAIN call.pre # {}
    /\ Cardinality(DOMAIN call.pre) >= min_tracks_
    /\ call.tracked /\ Propagated # {}
    /\ NewIds # {}

\* C21 witness of a full track set: after reset() a call that began with
\* min_tracks > 0 tracks performed the replenish step.
C21_WitnessFull ==
    /\ call.op = "process" /\ call.pre_op = "reset"
    /\ min_tracks_ > 0
    /\ Cardinality(DOMAIN call.pre) >= min_tracks_
    /\ call.need

====
